---- MODULE Spec2Model ----
(***************************************************************************)
(* Model of MultiThreadedFileCompressionTool.cpp: a Huffman compressor and *)
(* decompressor whose frequency count and whose decode are split over      *)
(* worker threads.                                                         *)
(*                                                                         *)
(* A byte is a one-character string; a file, a code and a payload are      *)
(* sequences of bytes.  C++ indices are 0-based, TLA+ sequences 1-based:   *)
(* data[i] of the source is data[i + 1] here.                              *)
(***************************************************************************)
EXTENDS Integers, Sequences, FiniteSets, TLC

\* ------------------------------------------------------------------ bounds
MaxLen == 4        \* longest input file, in bytes
MaxThreads == 3    \* largest thread count typed at the prompt
MaxDepth == 2      \* deepest tree of the tree-codec specification

\* Bytes an input file is made of.  "1" and "\n" share a hash bucket, and
\* both are bytes the artifact format also uses as a tag and as a delimiter.
Alphabet == {"a", "1", "\n"}
\* Leaf bytes of the tree-codec specification: the two tags and the delimiter.
CodecAlphabet == {"0", "1", "\n"}

VARIABLES
    fileData,        \* contents of the source file of the compression
    threadCount,     \* threadNum of main(), of the invocation under way
    pc,              \* position of the main thread
    run,             \* number of compressions started on fileData
    firstArtifact,   \* the artifact of the first compression, once a second one starts
    wpc,             \* position of every countFrequencyThread worker
    localMap,        \* localMap of every countFrequencyThread worker
    mergePos,        \* entries of localMap a worker has added to the global map
    frequencyMutex,  \* the set of workers holding frequencyMutex
    freqMapMT,       \* the table the workers merge into
    freqMapST,       \* the table of countFrequencySingle
    minHeap,         \* the vector under the priority_queue
    root,            \* root of the tree of the compression
    codeDict,        \* byte -> code
    encodedBinary,   \* the payload, one "0"/"1" per bit
    artifact,        \* contents of the compressed file
    truncated,       \* the artifact lost the last bit of its payload after it was written
    droot,           \* root of the tree readHuffmanTree rebuilt
    temp,            \* the byte decompressDataFile reads after the tree
    binaryData,      \* the payload decompressDataFile read
    decodedST,       \* result of huffmanDecode
    dpc,             \* position of every threadedDecode worker
    segments,        \* resultSegment of every threadedDecode worker
    outputFile       \* contents of the file decompressDataFile wrote, <<"none">> before

vars == <<fileData, threadCount, pc, run, firstArtifact, wpc, localMap, mergePos,
          frequencyMutex, freqMapMT, freqMapST, minHeap, root, codeDict,
          encodedBinary, artifact, truncated, droot, temp, binaryData, decodedST,
          dpc, segments, outputFile>>

countVars == <<wpc, localMap, mergePos, frequencyMutex, freqMapMT>>
buildVars == <<freqMapST, minHeap, root, codeDict, encodedBinary>>
decodeVars == <<droot, temp, binaryData, decodedST, dpc, segments, outputFile>>

Workers == 0 .. (MaxThreads - 1)

\* ------------------------------------------------------------ small helpers
Min(a, b) == IF a < b THEN a ELSE b

RECURSIVE SeqsUpTo(_, _)
SeqsUpTo(S, n) ==
    IF n = 0 THEN {<<>>}
    ELSE LET shorter == SeqsUpTo(S, n - 1)
         IN shorter \cup {Append(s, x) : s \in {t \in shorter : Len(t) = n - 1}, x \in S}

RECURSIVE Flatten(_)
Flatten(ss) == IF ss = <<>> THEN <<>> ELSE Head(ss) \o Flatten(Tail(ss))

\* ------------------------------------------------------------- HuffmanNode
Null == [null |-> TRUE]
NUL == "NUL"

HuffmanNode(ch, freq) ==
    [character |-> ch, frequency |-> freq, leftChild |-> Null, rightChild |-> Null]

IsLeaf(n) == n.leftChild = Null /\ n.rightChild = Null

HuffmanCompare(a, b) == a.frequency > b.frequency

\* --------------------------------------------- unordered_map<char, int>
\* A table is the node list of the hash table, in iteration order, each node
\* [key, val].  libstdc++ links a new node at the head of its bucket when the
\* bucket holds a node already, and at the head of the whole list otherwise;
\* the table grows from 1 to BucketCount buckets on the first insertion and
\* not again while it holds at most BucketCount keys.
BucketCount == 13

Ord(ch) ==
    CASE ch = "\n" -> 10
      [] ch = "0" -> 48
      [] ch = "1" -> 49
      [] ch = "a" -> 97
      [] ch = "b" -> 98
      [] ch = "c" -> 99

Bucket(ch) == Ord(ch) % BucketCount

Keys(m) == {m[i].key : i \in DOMAIN m}

Lookup(m, k) == LET i == CHOOSE j \in DOMAIN m : m[j].key = k IN m[i].val

\* globalMap[k] += n, for a key that may be new.
MapAdd(m, k, n) ==
    IF k \in Keys(m)
    THEN [i \in DOMAIN m |-> IF m[i].key = k THEN [key |-> k, val |-> m[i].val + n] ELSE m[i]]
    ELSE LET same == {i \in DOMAIN m : Bucket(m[i].key) = Bucket(k)}
             at == IF same = {} THEN 1 ELSE CHOOSE i \in same : \A j \in same : i <= j
             node == [key |-> k, val |-> n]
         IN SubSeq(m, 1, at - 1) \o <<node>> \o SubSeq(m, at, Len(m))

\* The table as a function byte -> count, forgetting the iteration order.
AsFunction(m) == [k \in Keys(m) |-> Lookup(m, k)]

\* for (i = begin; i < finish; ++i) map[data[i]]++
RECURSIVE CountRange(_, _, _, _)
CountRange(data, m, begin, finish) ==
    IF begin >= finish THEN m
    ELSE CountRange(data, MapAdd(m, data[begin + 1], 1), begin + 1, finish)

countFrequencySingle(data, freqMap) == CountRange(data, freqMap, 0, Len(data))

\* ------------------------------------------------- slices of the partition
Slice(n, w) == n \div w

StartIdx(i, n, w) == i * Slice(n, w)

EndIdxNoRemainder(i, n, w) == StartIdx(i, n, w) + Slice(n, w)

EndIdx(i, n, w) == IF i = w - 1 THEN n ELSE StartIdx(i, n, w) + Slice(n, w)

\* ------------------------------------- priority_queue over HuffmanCompare
\* The queue is a binary heap in a vector; index i of the vector is h[i + 1].
\* std::__push_heap(first, holeIndex, topIndex, value, comp)
RECURSIVE PushHeapLoop(_, _, _, _)
PushHeapLoop(h, holeIndex, topIndex, value) ==
    LET parent == (holeIndex - 1) \div 2
    IN IF holeIndex > topIndex /\ HuffmanCompare(h[parent + 1], value)
       THEN PushHeapLoop([h EXCEPT ![holeIndex + 1] = h[parent + 1]], parent, topIndex, value)
       ELSE [h EXCEPT ![holeIndex + 1] = value]

\* minHeap.push(value): push_back, then std::push_heap.
HeapPush(h, value) == PushHeapLoop(Append(h, value), Len(h), 0, value)

\* The descent of std::__adjust_heap: the hole moves to the larger child.
RECURSIVE AdjustHeapLoop(_, _, _, _)
AdjustHeapLoop(h, holeIndex, secondChild, len) ==
    IF secondChild < (len - 1) \div 2
    THEN LET right == 2 * (secondChild + 1)
             child == IF HuffmanCompare(h[right + 1], h[right]) THEN right - 1 ELSE right
         IN AdjustHeapLoop([h EXCEPT ![holeIndex + 1] = h[child + 1]], child, child, len)
    ELSE [heap |-> h, holeIndex |-> holeIndex, secondChild |-> secondChild]

\* std::__adjust_heap(first, holeIndex, len, value, comp)
AdjustHeap(h, holeIndex, len, value) ==
    LET d == AdjustHeapLoop(h, holeIndex, holeIndex, len)
        only == 2 * (d.secondChild + 1) - 1
    IN IF len % 2 = 0 /\ d.secondChild = (len - 2) \div 2
       THEN PushHeapLoop([d.heap EXCEPT ![d.holeIndex + 1] = d.heap[only + 1]],
                         only, holeIndex, value)
       ELSE PushHeapLoop(d.heap, d.holeIndex, holeIndex, value)

\* minHeap.pop(): std::pop_heap, then pop_back.
HeapPop(h) ==
    IF Len(h) > 1
    THEN SubSeq(AdjustHeap(h, 0, Len(h) - 1, h[Len(h)]), 1, Len(h) - 1)
    ELSE <<>>

\* for (auto& pair : freqMapMT) minHeap.push(new HuffmanNode(pair.first, pair.second))
RECURSIVE PushAll(_, _)
PushAll(h, m) ==
    IF m = <<>> THEN h
    ELSE PushAll(HeapPush(h, HuffmanNode(Head(m).key, Head(m).val)), Tail(m))

\* while (minHeap.size() > 1) { pop left, pop right, push merged }
RECURSIVE MergeAll(_)
MergeAll(h) ==
    IF Len(h) > 1
    THEN LET left == h[1]
             h1 == HeapPop(h)
             right == h1[1]
             h2 == HeapPop(h1)
             merged == [character |-> NUL, frequency |-> left.frequency + right.frequency,
                        leftChild |-> left, rightChild |-> right]
         IN MergeAll(HeapPush(h2, merged))
    ELSE h

\* ----------------------------------------------------------- code table
PutCode(codeMap, ch, code) ==
    [k \in (DOMAIN codeMap) \cup {ch} |-> IF k = ch THEN code ELSE codeMap[k]]

RECURSIVE createHuffmanCodesSameBit(_, _, _)
createHuffmanCodesSameBit(rootNode, currCode, codeMap) ==
    IF rootNode = Null THEN codeMap
    ELSE LET here == IF IsLeaf(rootNode)
                     THEN PutCode(codeMap, rootNode.character, currCode)
                     ELSE codeMap
             afterLeft == createHuffmanCodesSameBit(rootNode.leftChild, Append(currCode, "0"), here)
         IN createHuffmanCodesSameBit(rootNode.rightChild, Append(currCode, "0"), afterLeft)

RECURSIVE createHuffmanCodes(_, _, _)
createHuffmanCodes(rootNode, currCode, codeMap) ==
    IF rootNode = Null THEN codeMap
    ELSE LET here == IF IsLeaf(rootNode)
                     THEN PutCode(codeMap, rootNode.character, currCode)
                     ELSE codeMap
             afterLeft == createHuffmanCodes(rootNode.leftChild, Append(currCode, "0"), here)
         IN createHuffmanCodes(rootNode.rightChild, Append(currCode, "1"), afterLeft)

\* codeTable[ch] of a byte without a code is the empty string.
RECURSIVE huffmanEncode(_, _)
huffmanEncode(data, codeTable) ==
    IF data = <<>> THEN <<>>
    ELSE (IF Head(data) \in DOMAIN codeTable THEN codeTable[Head(data)] ELSE <<>>)
         \o huffmanEncode(Tail(data), codeTable)

\* ------------------------------------------------------------ tree codec
RECURSIVE writeHuffmanTreeRightFirst(_)
writeHuffmanTreeRightFirst(rootNode) ==
    IF rootNode = Null THEN <<>>
    ELSE (IF IsLeaf(rootNode) THEN <<"1", rootNode.character>> ELSE <<"0">>)
         \o writeHuffmanTreeRightFirst(rootNode.rightChild)
         \o writeHuffmanTreeRightFirst(rootNode.leftChild)

RECURSIVE writeHuffmanTree(_)
writeHuffmanTree(rootNode) ==
    IF rootNode = Null THEN <<>>
    ELSE (IF IsLeaf(rootNode) THEN <<"1", rootNode.character>> ELSE <<"0">>)
         \o writeHuffmanTree(rootNode.leftChild)
         \o writeHuffmanTree(rootNode.rightChild)

\* readHuffmanTree on the stream from offset pos: the node and the offset
\* after it.  An extraction at the end of the stream leaves marker (or
\* character) unset; both builds of the tool then run off the stack or
\* through a null child and are killed: ok is FALSE.
RECURSIVE readHuffmanTree(_, _)
readHuffmanTree(stream, pos) ==
    IF pos >= Len(stream) THEN [ok |-> FALSE, node |-> Null, pos |-> pos]
    ELSE IF stream[pos + 1] = "1"
    THEN IF pos + 1 >= Len(stream) THEN [ok |-> FALSE, node |-> Null, pos |-> pos + 1]
         ELSE [ok |-> TRUE, node |-> HuffmanNode(stream[pos + 2], 0), pos |-> pos + 2]
    ELSE LET l == readHuffmanTree(stream, pos + 1)
             r == readHuffmanTree(stream, l.pos)
         IN IF ~l.ok THEN l
            ELSE IF ~r.ok THEN r
            ELSE [ok |-> TRUE,
                  node |-> [character |-> NUL, frequency |-> 0,
                            leftChild |-> l.node, rightChild |-> r.node],
                  pos |-> r.pos]

\* ---------------------------------------------------------------- decode
\* The loop of huffmanDecode and of threadedDecode over encoded[i .. finish).
\* Stepping to a child of a leaf yields a null pointer whose fields are read
\* next: the process is killed (crashed).
RECURSIVE WalkBits(_, _, _, _, _, _)
WalkBits(encoded, rootNode, current, i, finish, result) ==
    IF i >= finish THEN [crashed |-> FALSE, result |-> result]
    ELSE LET next == IF encoded[i + 1] = "0" THEN current.leftChild ELSE current.rightChild
         IN IF next = Null THEN [crashed |-> TRUE, result |-> result]
            ELSE IF IsLeaf(next)
            THEN WalkBits(encoded, rootNode, rootNode, i + 1, finish,
                          Append(result, next.character))
            ELSE WalkBits(encoded, rootNode, next, i + 1, finish, result)

huffmanDecode(rootNode, encodedText) ==
    WalkBits(encodedText, rootNode, rootNode, 0, Len(encodedText), <<>>)

threadedDecodeSkipFirst(encoded, rootNode, begin, finish) ==
    WalkBits(encoded, rootNode, rootNode, Min(begin + 1, finish), finish, <<>>)

threadedDecode(encoded, rootNode, begin, finish) ==
    WalkBits(encoded, rootNode, rootNode, begin, finish, <<>>)

\* ================================================================ actions
NoFile == <<"none">>

Idle == [i \in Workers |-> "idle"]
NoMaps == [i \in Workers |-> <<>>]
NoProgress == [i \in Workers |-> 0]

Inputs == SeqsUpTo(Alphabet, MaxLen)

Init ==
    /\ fileData \in Inputs
    /\ threadCount = 0
    /\ pc = "main"
    /\ run = 0
    /\ firstArtifact = NoFile
    /\ wpc = Idle
    /\ localMap = NoMaps
    /\ mergePos = NoProgress
    /\ frequencyMutex = {}
    /\ freqMapMT = <<>>
    /\ freqMapST = <<>>
    /\ minHeap = <<>>
    /\ root = Null
    /\ codeDict = <<>>
    /\ encodedBinary = <<>>
    /\ artifact = NoFile
    /\ truncated = FALSE
    /\ droot = Null
    /\ temp = ""
    /\ binaryData = <<>>
    /\ decodedST = <<>>
    /\ dpc = Idle
    /\ segments = NoMaps
    /\ outputFile = NoFile

\* ----------------------------------------------------- compressDataFile
\* main() with choice 1 and w threads: the file is read and the w counting
\* workers are created.
StartCompress(w) ==
    /\ pc = "main"
    /\ run = 0
    /\ threadCount' = w
    /\ run' = 1
    /\ wpc' = [i \in Workers |-> IF i < w THEN "count" ELSE "idle"]
    /\ pc' = "joinCount"
    /\ UNCHANGED <<fileData, firstArtifact, localMap, mergePos, frequencyMutex,
                   freqMapMT, artifact, truncated>>
    /\ UNCHANGED buildVars
    /\ UNCHANGED decodeVars

\* countFrequencyThread, the local pass over data[begin .. finish).
CountLocal(i) ==
    /\ pc = "joinCount"
    /\ wpc[i] = "count"
    /\ localMap' = [localMap EXCEPT ![i] =
           CountRange(fileData, <<>>, StartIdx(i, Len(fileData), threadCount),
                      EndIdx(i, Len(fileData), threadCount))]
    /\ wpc' = [wpc EXCEPT ![i] = "lock"]
    /\ UNCHANGED <<fileData, threadCount, pc, run, firstArtifact, mergePos,
                   frequencyMutex, freqMapMT, artifact, truncated>>
    /\ UNCHANGED buildVars
    /\ UNCHANGED decodeVars

\* A lock that does not wait for the mutex.
LockWithoutWaiting(i) ==
    /\ pc = "joinCount"
    /\ wpc[i] = "lock"
    /\ frequencyMutex' = frequencyMutex \cup {i}
    /\ wpc' = [wpc EXCEPT ![i] = "merge"]
    /\ UNCHANGED <<fileData, threadCount, pc, run, firstArtifact, localMap, mergePos,
                   freqMapMT, artifact, truncated>>
    /\ UNCHANGED buildVars
    /\ UNCHANGED decodeVars

\* lock_guard<mutex> guard(frequencyMutex)
Lock(i) ==
    /\ pc = "joinCount"
    /\ wpc[i] = "lock"
    /\ frequencyMutex = {}
    /\ frequencyMutex' = frequencyMutex \cup {i}
    /\ wpc' = [wpc EXCEPT ![i] = "merge"]
    /\ UNCHANGED <<fileData, threadCount, pc, run, firstArtifact, localMap, mergePos,
                   freqMapMT, artifact, truncated>>
    /\ UNCHANGED buildVars
    /\ UNCHANGED decodeVars

\* One round of the merge loop: globalMap[pair.first] += pair.second
MergeEntry(i) ==
    /\ pc = "joinCount"
    /\ wpc[i] = "merge"
    /\ mergePos[i] < Len(localMap[i])
    /\ LET pair == localMap[i][mergePos[i] + 1]
       IN freqMapMT' = MapAdd(freqMapMT, pair.key, pair.val)
    /\ mergePos' = [mergePos EXCEPT ![i] = @ + 1]
    /\ UNCHANGED <<fileData, threadCount, pc, run, firstArtifact, wpc, localMap,
                   frequencyMutex, artifact, truncated>>
    /\ UNCHANGED buildVars
    /\ UNCHANGED decodeVars

\* The worker returns: the guard is destroyed and the mutex released.
Unlock(i) ==
    /\ pc = "joinCount"
    /\ wpc[i] = "merge"
    /\ mergePos[i] = Len(localMap[i])
    /\ frequencyMutex' = frequencyMutex \ {i}
    /\ wpc' = [wpc EXCEPT ![i] = "done"]
    /\ UNCHANGED <<fileData, threadCount, pc, run, firstArtifact, localMap, mergePos,
                   freqMapMT, artifact, truncated>>
    /\ UNCHANGED buildVars
    /\ UNCHANGED decodeVars

\* for (auto& th : workers) th.join()
JoinCounters ==
    /\ pc = "joinCount"
    /\ \A i \in Workers : i < threadCount => wpc[i] = "done"
    /\ pc' = "countSingle"
    /\ UNCHANGED <<fileData, threadCount, run, firstArtifact, artifact, truncated>>
    /\ UNCHANGED countVars
    /\ UNCHANGED buildVars
    /\ UNCHANGED decodeVars

CountSingle ==
    /\ pc = "countSingle"
    /\ freqMapST' = countFrequencySingle(fileData, <<>>)
    /\ pc' = "seedHeap"
    /\ UNCHANGED <<fileData, threadCount, run, firstArtifact, artifact, truncated,
                   minHeap, root, codeDict, encodedBinary>>
    /\ UNCHANGED countVars
    /\ UNCHANGED decodeVars

SeedHeap ==
    /\ pc = "seedHeap"
    /\ minHeap' = PushAll(<<>>, freqMapMT)
    /\ pc' = "mergeNodes"
    /\ UNCHANGED <<fileData, threadCount, run, firstArtifact, artifact, truncated,
                   freqMapST, root, codeDict, encodedBinary>>
    /\ UNCHANGED countVars
    /\ UNCHANGED decodeVars

MergeNodes ==
    /\ pc = "mergeNodes"
    /\ minHeap' = MergeAll(minHeap)
    /\ pc' = "takeRoot"
    /\ UNCHANGED <<fileData, threadCount, run, firstArtifact, artifact, truncated,
                   freqMapST, root, codeDict, encodedBinary>>
    /\ UNCHANGED countVars
    /\ UNCHANGED decodeVars

\* root = minHeap.top() of a queue that holds the root.
TakeRoot ==
    /\ pc = "takeRoot"
    /\ minHeap # <<>>
    /\ root' = minHeap[1]
    /\ pc' = "createCodes"
    /\ UNCHANGED <<fileData, threadCount, run, firstArtifact, artifact, truncated,
                   freqMapST, minHeap, codeDict, encodedBinary>>
    /\ UNCHANGED countVars
    /\ UNCHANGED decodeVars

\* root = minHeap.top() of an empty queue: front() of an empty vector, which
\* is undefined.  The vector never allocated, so the read is through a null
\* pointer: the process is killed, or the read yields a null root and the
\* function goes on with it.
TakeRootOfEmptyQueue ==
    /\ pc = "takeRoot"
    /\ minHeap = <<>>
    /\ \/ /\ pc' = "crashed"
          /\ root' = root
       \/ /\ pc' = "createCodes"
          /\ root' = Null
    /\ UNCHANGED <<fileData, threadCount, run, firstArtifact, artifact, truncated,
                   freqMapST, minHeap, codeDict, encodedBinary>>
    /\ UNCHANGED countVars
    /\ UNCHANGED decodeVars

CreateCodes ==
    /\ pc = "createCodes"
    /\ codeDict' = createHuffmanCodes(root, <<>>, <<>>)
    /\ pc' = "encode"
    /\ UNCHANGED <<fileData, threadCount, run, firstArtifact, artifact, truncated,
                   freqMapST, minHeap, root, encodedBinary>>
    /\ UNCHANGED countVars
    /\ UNCHANGED decodeVars

Encode ==
    /\ pc = "encode"
    /\ encodedBinary' = huffmanEncode(fileData, codeDict)
    /\ pc' = "write"
    /\ UNCHANGED <<fileData, threadCount, run, firstArtifact, artifact, truncated,
                   freqMapST, minHeap, root, codeDict>>
    /\ UNCHANGED countVars
    /\ UNCHANGED decodeVars

\* writeHuffmanTree(root, output); output << '\n' << encodedBinary
WriteArtifact ==
    /\ pc = "write"
    /\ artifact' = writeHuffmanTree(root) \o <<"\n">> \o encodedBinary
    /\ pc' = "compressed"
    /\ UNCHANGED <<fileData, threadCount, run, firstArtifact, truncated>>
    /\ UNCHANGED countVars
    /\ UNCHANGED buildVars
    /\ UNCHANGED decodeVars

\* The tool is run again on the same file with the same thread count.
Recompress ==
    /\ pc = "compressed"
    /\ run = 1
    /\ ~truncated
    /\ firstArtifact' = artifact
    /\ run' = 2
    /\ wpc' = [i \in Workers |-> IF i < threadCount THEN "count" ELSE "idle"]
    /\ localMap' = NoMaps
    /\ mergePos' = NoProgress
    /\ freqMapMT' = <<>>
    /\ freqMapST' = <<>>
    /\ minHeap' = <<>>
    /\ root' = Null
    /\ codeDict' = <<>>
    /\ encodedBinary' = <<>>
    /\ pc' = "joinCount"
    /\ UNCHANGED <<fileData, threadCount, frequencyMutex, artifact, truncated>>
    /\ UNCHANGED decodeVars

\* The compressed file loses the last bit of its payload.
TruncatePayload ==
    /\ pc = "compressed"
    /\ ~truncated
    /\ Len(artifact) > Len(writeHuffmanTree(root)) + 1
    /\ artifact' = SubSeq(artifact, 1, Len(artifact) - 1)
    /\ truncated' = TRUE
    /\ UNCHANGED <<fileData, threadCount, pc, run, firstArtifact>>
    /\ UNCHANGED countVars
    /\ UNCHANGED buildVars
    /\ UNCHANGED decodeVars

\* --------------------------------------------------- decompressDataFile
\* main() with choice 2 and w threads: the tree is rebuilt, the byte after
\* it is read into temp and the rest of the file into binaryData.
ReadArtifact(w) ==
    /\ pc = "compressed"
    /\ threadCount' = w
    /\ LET t == readHuffmanTree(artifact, 0)
       IN IF t.ok
          THEN /\ droot' = t.node
               /\ temp' = IF t.pos < Len(artifact) THEN artifact[t.pos + 1] ELSE temp
               /\ binaryData' = SubSeq(artifact, t.pos + 2, Len(artifact))
               /\ pc' = "decodeSingle"
          ELSE /\ pc' = "crashed"
               /\ UNCHANGED <<droot, temp, binaryData>>
    /\ UNCHANGED <<fileData, run, firstArtifact, artifact, truncated,
                   decodedST, dpc, segments, outputFile>>
    /\ UNCHANGED countVars
    /\ UNCHANGED buildVars

DecodeSingle ==
    /\ pc = "decodeSingle"
    /\ LET d == huffmanDecode(droot, binaryData)
       IN IF d.crashed
          THEN /\ pc' = "crashed"
               /\ UNCHANGED decodedST
          ELSE /\ pc' = "spawnDecoders"
               /\ decodedST' = d.result
    /\ UNCHANGED <<fileData, threadCount, run, firstArtifact, artifact, truncated,
                   droot, temp, binaryData, dpc, segments, outputFile>>
    /\ UNCHANGED countVars
    /\ UNCHANGED buildVars

\* The loop that creates the threadedDecode workers.
SpawnDecoders ==
    /\ pc = "spawnDecoders"
    /\ dpc' = [i \in Workers |-> IF i < threadCount THEN "decode" ELSE "idle"]
    /\ pc' = "joinDecoders"
    /\ UNCHANGED <<fileData, threadCount, run, firstArtifact, artifact, truncated,
                   droot, temp, binaryData, decodedST, segments, outputFile>>
    /\ UNCHANGED countVars
    /\ UNCHANGED buildVars

\* Worker i decodes binaryData[startIdx .. endIdx) from the root into segments[i].
DecodeSegment(i) ==
    /\ pc = "joinDecoders"
    /\ dpc[i] = "decode"
    /\ LET d == threadedDecode(binaryData, droot,
                               StartIdx(i, Len(binaryData), threadCount),
                               EndIdx(i, Len(binaryData), threadCount))
       IN IF d.crashed
          THEN /\ pc' = "crashed"
               /\ UNCHANGED <<dpc, segments>>
          ELSE /\ pc' = pc
               /\ segments' = [segments EXCEPT ![i] = d.result]
               /\ dpc' = [dpc EXCEPT ![i] = "done"]
    /\ UNCHANGED <<fileData, threadCount, run, firstArtifact, artifact, truncated,
                   droot, temp, binaryData, decodedST, outputFile>>
    /\ UNCHANGED countVars
    /\ UNCHANGED buildVars

\* The workers are joined, the segments concatenated in index order and the
\* result written to the target file.
JoinDecoders ==
    /\ pc = "joinDecoders"
    /\ \A i \in Workers : i < threadCount => dpc[i] = "done"
    /\ outputFile' = Flatten([k \in 1 .. threadCount |-> segments[k - 1]])
    /\ pc' = "decompressed"
    /\ UNCHANGED <<fileData, threadCount, run, firstArtifact, artifact, truncated,
                   droot, temp, binaryData, decodedST, dpc, segments>>
    /\ UNCHANGED countVars
    /\ UNCHANGED buildVars

ThreadCounts == 1 .. MaxThreads

Next ==
    \/ \E w \in ThreadCounts : StartCompress(w)
    \/ \E i \in Workers : CountLocal(i)
    \/ \E i \in Workers : Lock(i)
    \/ \E i \in Workers : MergeEntry(i)
    \/ \E i \in Workers : Unlock(i)
    \/ JoinCounters
    \/ CountSingle
    \/ SeedHeap
    \/ MergeNodes
    \/ TakeRoot
    \/ TakeRootOfEmptyQueue
    \/ CreateCodes
    \/ Encode
    \/ WriteArtifact
    \/ Recompress
    \/ TruncatePayload
    \/ \E w \in ThreadCounts : ReadArtifact(w)
    \/ DecodeSingle
    \/ SpawnDecoders
    \/ \E i \in Workers : DecodeSegment(i)
    \/ JoinDecoders

Spec == Init /\ [][Next]_vars

\* ------------------------------------------- the tree codec on any tree
InternalNode(l, r) ==
    [character |-> NUL, frequency |-> 0, leftChild |-> l, rightChild |-> r]

RECURSIVE TreesUpTo(_)
TreesUpTo(d) ==
    IF d = 0 THEN {HuffmanNode(ch, 0) : ch \in CodecAlphabet}
    ELSE LET sub == TreesUpTo(d - 1)
         IN sub \cup {InternalNode(l, r) : l \in sub, r \in sub}

CodecTrees == {t \in TreesUpTo(MaxDepth) : ~IsLeaf(t)}

CodecPayloads == {<<>>, <<"1", "0">>, <<"0", "1">>}

\* A tree and a payload ready to be written, whatever built them.
InitCodec ==
    /\ fileData = <<>>
    /\ threadCount = 1
    /\ pc = "write"
    /\ run = 1
    /\ firstArtifact = NoFile
    /\ wpc = Idle
    /\ localMap = NoMaps
    /\ mergePos = NoProgress
    /\ frequencyMutex = {}
    /\ freqMapMT = <<>>
    /\ freqMapST = <<>>
    /\ minHeap = <<>>
    /\ root \in CodecTrees
    /\ codeDict = <<>>
    /\ encodedBinary \in CodecPayloads
    /\ artifact = NoFile
    /\ truncated = FALSE
    /\ droot = Null
    /\ temp = ""
    /\ binaryData = <<>>
    /\ decodedST = <<>>
    /\ dpc = Idle
    /\ segments = NoMaps
    /\ outputFile = NoFile

NextCodec ==
    \/ WriteArtifact
    \/ \E w \in ThreadCounts : ReadArtifact(w)

SpecCodec == InitCodec /\ [][NextCodec]_vars

\* ================================================================ claims
Bytes(data) == {data[k] : k \in DOMAIN data}

IsPrefix(s, t) == Len(s) <= Len(t) /\ SubSeq(t, 1, Len(s)) = s

\* The offsets in i .. Len(encoded) at which a walk that is at `current`
\* at offset i stands at the root: the code-word boundaries of the payload.
RECURSIVE CodeWordBoundaries(_, _, _, _)
CodeWordBoundaries(encoded, rootNode, current, i) ==
    (IF current = rootNode THEN {i} ELSE {})
    \cup (IF i >= Len(encoded) THEN {}
          ELSE LET next == IF encoded[i + 1] = "0" THEN current.leftChild
                           ELSE current.rightChild
               IN CodeWordBoundaries(encoded, rootNode,
                                     IF IsLeaf(next) THEN rootNode ELSE next, i + 1))

Boundaries(encoded, rootNode) == CodeWordBoundaries(encoded, rootNode, rootNode, 0)

\* The nested tuple of leaf bytes of a tree: its shape and its leaves.
RECURSIVE Shape(_)
Shape(n) ==
    IF IsLeaf(n) THEN <<n.character>> ELSE <<Shape(n.leftChild), Shape(n.rightChild)>>

RECURSIVE Leaves(_)
Leaves(n) ==
    IF IsLeaf(n) THEN {n.character} ELSE Leaves(n.leftChild) \cup Leaves(n.rightChild)

CountersJoined == run >= 1 /\ \A i \in Workers : i < threadCount => wpc[i] = "done"

CodesDerived ==
    pc \in {"encode", "write", "compressed", "decodeSingle", "spawnDecoders",
            "joinDecoders", "decompressed"}

Encoded ==
    pc \in {"write", "compressed", "decodeSingle", "spawnDecoders", "joinDecoders",
            "decompressed"}

PayloadRead == pc \in {"decodeSingle", "spawnDecoders", "joinDecoders", "decompressed"}

\* C1 (as claimed): whatever the input and the thread counts, the file the
\* decompression writes from an untouched artifact is the input file.
C1_RoundTrip ==
    (pc = "decompressed" /\ ~truncated) => outputFile = fileData

\* C2: once every counting worker has finished, the merged table holds the
\* keys and counts of the sequential count of the same file, each key once
\* and no key with a count of zero; the table countFrequencySingle then
\* fills is the same.
C2_FrequencyInvariance ==
    (pc \notin {"main", "crashed"} /\ CountersJoined)
    => /\ AsFunction(freqMapMT) = AsFunction(countFrequencySingle(fileData, <<>>))
       /\ Cardinality(Keys(freqMapMT)) = Len(freqMapMT)
       /\ \A k \in DOMAIN freqMapMT : freqMapMT[k].val > 0
       /\ Keys(freqMapMT) = Bytes(fileData)
       /\ (pc \notin {"joinCount", "countSingle"}
           => AsFunction(freqMapST) = AsFunction(freqMapMT))

\* C2 witness: three workers over four bytes (slices of 1, 1 and 2 bytes)
\* have merged a table of at least two keys.
C2_Witness ==
    /\ pc = "seedHeap"
    /\ threadCount = 3
    /\ Len(fileData) = 4
    /\ Cardinality(Keys(freqMapMT)) >= 2

\* C3 (as claimed): when the payload lost its last bit and now ends inside a
\* code word, the decompression does not complete and writes no output.
C3_TruncatedPayloadRejected ==
    (truncated /\ PayloadRead /\ Len(binaryData) \notin Boundaries(binaryData, droot))
    => (pc # "decompressed" /\ outputFile = NoFile)

\* C4 (as claimed): for an input of one distinct byte the tree is a single
\* leaf, the byte's code is one bit long and the payload has one bit per
\* input byte.
C4_DegenerateTree ==
    (Encoded /\ Cardinality(Bytes(fileData)) = 1)
    => /\ IsLeaf(root)
       /\ \A ch \in Bytes(fileData) : ch \in DOMAIN codeDict /\ Len(codeDict[ch]) = 1
       /\ Len(encodedBinary) = Len(fileData)

\* C5 (as claimed): on an empty input the compression never enters the
\* tree-building step, never takes the top of the empty queue, never derives
\* codes from or writes a root that does not exist, and the artifact it
\* produces is empty.
C5_EmptyInputShortCircuit ==
    (fileData = <<>>)
    => /\ pc \notin {"mergeNodes", "takeRoot", "createCodes", "encode", "write", "crashed"}
       /\ (pc = "compressed" => artifact = <<>>)

\* C6: for a table of at least two bytes, every byte of the input has one
\* code, no other byte has one, and no byte's code is a prefix of another's.
C6_PrefixFree ==
    (CodesDerived /\ Cardinality(Keys(freqMapMT)) >= 2)
    => /\ DOMAIN codeDict = Bytes(fileData)
       /\ \A a \in DOMAIN codeDict : \A b \in DOMAIN codeDict :
              a # b => ~IsPrefix(codeDict[a], codeDict[b])

\* C6 witness: a code table of three bytes with codes of different lengths.
C6_Witness ==
    /\ pc = "encode"
    /\ Cardinality(DOMAIN codeDict) = 3
    /\ \E a \in DOMAIN codeDict : \E b \in DOMAIN codeDict :
           Len(codeDict[a]) < Len(codeDict[b])

\* C7 (as claimed): the second compression of the same file with the same
\* thread count writes the artifact the first one wrote.
C7_Deterministic ==
    (run = 2 /\ pc = "compressed" /\ ~truncated) => artifact = firstArtifact

\* C8: with a tree of at least two leaves and an untouched payload, the
\* segments of the decode workers, concatenated in index order, are the
\* sequential decode exactly when every range start i * floor(L / W) is a
\* code-word boundary of the payload.
C8_PartitionAlignment ==
    (pc = "decompressed" /\ ~truncated /\ ~IsLeaf(droot))
    => ((outputFile = decodedST)
        <=> \A i \in Workers : i < threadCount =>
                StartIdx(i, Len(binaryData), threadCount) \in Boundaries(binaryData, droot))

\* C8 witness: a range boundary fell inside a code word and the output
\* differs from the sequential decode.
C8_Witness ==
    /\ pc = "decompressed"
    /\ ~truncated
    /\ ~IsLeaf(droot)
    /\ threadCount >= 2
    /\ \E i \in Workers :
           /\ i < threadCount
           /\ StartIdx(i, Len(binaryData), threadCount) \notin Boundaries(binaryData, droot)
    /\ outputFile # decodedST

MutexDiscipline ==
    /\ Cardinality({i \in Workers : wpc[i] = "merge"}) <= 1
    /\ \A i \in Workers : (wpc[i] = "merge") <=> (i \in frequencyMutex)
    /\ (CountersJoined => frequencyMutex = {})

\* C9: at most one worker at a time is in its merge loop and it holds the
\* mutex; no worker holds it while counting or waiting; the mutex is free
\* once all have finished; and every step of a worker that changes the
\* global table is a step of the one worker holding the mutex.
C9_GuardedMerge ==
    [][/\ MutexDiscipline
       /\ MutexDiscipline'
       /\ (pc = "joinCount" /\ freqMapMT' # freqMapMT)
          => \E i \in Workers : /\ frequencyMutex = {i}
                                /\ wpc[i] = "merge"
                                /\ mergePos'[i] = mergePos[i] + 1]_vars

\* C9 witness: a worker is part-way through its merge while another waits
\* for the mutex.
C9_Witness ==
    \E i \in Workers : \E j \in Workers :
        /\ i # j
        /\ wpc[i] = "merge"
        /\ mergePos[i] >= 1
        /\ mergePos[i] < Len(localMap[i])
        /\ wpc[j] = "lock"

\* C10: reading back the token stream of any strict binary tree of at least
\* two leaves rebuilds its shape and its leaf bytes, stops right after the
\* last token, and leaves the delimiter and then the payload to be read.
C10_TreeCodecRoundTrip ==
    /\ pc # "crashed"
    /\ PayloadRead
       => /\ Shape(droot) = Shape(root)
          /\ readHuffmanTree(artifact, 0).pos = Len(writeHuffmanTree(root))
          /\ temp = "\n"
          /\ binaryData = encodedBinary

\* C10 witness: a tree whose leaves are the two tags and the delimiter was
\* read back, with a payload behind it.
C10_Witness ==
    /\ pc = "decodeSingle"
    /\ Leaves(root) = CodecAlphabet
    /\ binaryData # <<>>

====
